---------------------------- MODULE Spec2Model ----------------------------
(***************************************************************************)
(* Model of the EPUB metadata editor and platform watermarking pipeline.   *)
(*                                                                         *)
(* Text is modelled as a sequence of tokens.  A token is a run of          *)
(* characters that the regular expressions of the program treat as a unit: *)
(* a closing tag, a piece of an opening tag, one whitespace character, one *)
(* glyph, one ordinary character.  TokLen gives the number of characters   *)
(* of each token, so that character counts are those of the program.       *)
(***************************************************************************)
EXTENDS Integers, Sequences, FiniteSets, TLC

(***************************************************************************)
(* config.py                                                               *)
(***************************************************************************)
\* The platforms in processing order (the key order of PLATFORM_MARKS).
PLATFORMS == <<"amazon", "apple", "binpar", "google", "vitalsource">>

PlatformSet == {PLATFORMS[i] : i \in 1..Len(PLATFORMS)}

\* The glyph of each platform, named by its code point.
PLATFORM_MARKS ==
    [p \in PlatformSet |->
        CASE p = "amazon"      -> "U+25B2"
          [] p = "apple"       -> "U+25BC"
          [] p = "binpar"      -> "U+25C6"
          [] p = "google"      -> "U+25CF"
          [] p = "vitalsource" -> "U+25A0"]

Glyphs == {PLATFORM_MARKS[p] : p \in PlatformSet}

NUM_FILES_TO_MARK == 3

(***************************************************************************)
(* Tokens                                                                  *)
(***************************************************************************)
LF == "\n"
CRLF == "\r\n"
POpen == "<p"
StyleAttr == " style=\"text-align: center;\""
Gt == ">"
PClose == "</p>"
DivClose == "</div>"
BodyCloseTags == {"</body>", "</BODY>"}
Whitespace == {" ", LF}

\* Tokens whose last character, and no other, is ">".
GtTokens == {Gt, PClose, DivClose} \cup BodyCloseTags

\* The number of characters of a token.
TokLen(t) ==
    CASE t = POpen            -> 2
      [] t = StyleAttr        -> 28
      [] t = PClose           -> 4
      [] t = DivClose         -> 6
      [] t \in BodyCloseTags  -> 7
      [] t = CRLF             -> 2
      [] OTHER                -> 1

RECURSIVE TextLen(_)
\* len(content)
TextLen(s) == IF s = <<>> THEN 0 ELSE TokLen(Head(s)) + TextLen(Tail(s))

\* s[i..j], empty when j < i
Slice(s, i, j) == IF j < i THEN <<>> ELSE SubSeq(s, i, j)

RECURSIVE SkipWs(_, _)
\* The first position at or after i that holds no whitespace (\s*, greedy).
SkipWs(s, i) ==
    IF i <= Len(s) /\ s[i] \in Whitespace THEN SkipWs(s, i + 1) ELSE i

(***************************************************************************)
(* File input and output in text mode                                      *)
(***************************************************************************)
\* open(path, 'r', encoding='utf-8').read(): universal newlines turn every
\* "\r\n" of the file into "\n".
ReadText(bytes) ==
    [i \in 1..Len(bytes) |-> IF bytes[i] = CRLF THEN LF ELSE bytes[i]]

\* open(path, 'w', encoding='utf-8').write(text): every "\n" is written as
\* the line separator of the host.
WriteText(text, sep) ==
    [i \in 1..Len(text) |-> IF text[i] = LF THEN sep ELSE text[i]]

(***************************************************************************)
(* modules/watermark_manager.py : insert_watermark                         *)
(***************************************************************************)
\* MARK_TEMPLATE.format(mark=mark)
MarkHtml(mark) == <<POpen, StyleAttr, Gt, mark, PClose>>

\* The positions j of a closing body tag reached from a closing div tag
\* through whitespace only: the matches of (</div>\s*)(</body>).
DivBodyMatches(content) ==
    {j \in 1..Len(content) :
        /\ content[j] \in BodyCloseTags
        /\ \E i \in 1..(j - 1) :
              /\ content[i] = DivClose
              /\ \A k \in (i + 1)..(j - 1) : content[k] \in Whitespace}

\* The positions of a closing body tag: the matches of (</body>).
BodyMatches(content) == {j \in 1..Len(content) : content[j] \in BodyCloseTags}

Min(S) == CHOOSE x \in S : \A y \in S : x <= y

\* The text with the marker block and a newline put before position j.
InsertBefore(content, j, mark) ==
    Slice(content, 1, j - 1) \o MarkHtml(mark) \o <<LF>> \o Slice(content, j, Len(content))

\* new_content of insert_watermark: one substitution (count=1) at the
\* leftmost match of the div pattern, else of the body pattern, else none.
NewContent(content, mark) ==
    IF DivBodyMatches(content) # {}
    THEN InsertBefore(content, Min(DivBodyMatches(content)), mark)
    ELSE IF BodyMatches(content) # {}
         THEN InsertBefore(content, Min(BodyMatches(content)), mark)
         ELSE content

\* insert_watermark without its test for an unchanged text: it writes and
\* reports success whatever the substitution did.
insert_watermark_unchecked(bytes, mark, sep) ==
    [bytes |-> WriteText(NewContent(ReadText(bytes), mark), sep),
     written |-> TRUE, ret |-> TRUE]

\* insert_watermark(file_path, mark) on a file holding bytes: the bytes the
\* file holds afterwards, whether the file was written, the value returned.
insert_watermark(bytes, mark, sep) ==
    LET content == ReadText(bytes)
        new_content == NewContent(content, mark)
    IN  IF new_content = content
        THEN [bytes |-> bytes, written |-> FALSE, ret |-> FALSE]
        ELSE [bytes |-> WriteText(new_content, sep), written |-> TRUE, ret |-> TRUE]

(***************************************************************************)
(* modules/integrity_checker.py                                            *)
(***************************************************************************)
\* One past the end of the match of the marker pattern of glyph g that
\* starts at position i, or 0 when none starts there:
\*   <p[^>]*style\s*=\s*["']text-align:\s*center;?["'][^>]*>\s*g\s*</p>\s*
MarkMatchEnd(s, i, g) ==
    IF s[i] # POpen THEN 0
    ELSE LET closers == {j \in (i + 1)..Len(s) : s[j] \in GtTokens}
         IN  IF closers = {} THEN 0
             ELSE LET j == Min(closers)
                      m == SkipWs(s, j + 1)
                      n == SkipWs(s, m + 1)
                  IN  IF /\ \E k \in (i + 1)..(j - 1) : s[k] = StyleAttr
                         /\ m <= Len(s) /\ s[m] = g
                         /\ n <= Len(s) /\ s[n] = PClose
                      THEN SkipWs(s, n + 1)
                      ELSE 0

RECURSIVE StripFrom(_, _, _)
\* re.sub(pattern, '', content) from position i on: matches are taken left
\* to right and do not overlap.
StripFrom(s, i, g) ==
    IF i > Len(s) THEN <<>>
    ELSE LET e == MarkMatchEnd(s, i, g)
         IN  IF e = 0 THEN <<s[i]>> \o StripFrom(s, i + 1, g)
             ELSE StripFrom(s, e, g)

RECURSIVE StripMarks(_, _)
\* The loop over get_mark_patterns(): one substitution pass per platform
\* glyph, in the order of PLATFORM_MARKS, from platform number k on.
StripMarks(s, k) ==
    IF k > Len(PLATFORMS) THEN s
    ELSE StripMarks(StripFrom(s, 1, PLATFORM_MARKS[PLATFORMS[k]]), k + 1)

count_characters(content, exclude_marks) ==
    IF exclude_marks THEN TextLen(StripMarks(content, 1)) ELSE TextLen(content)


(***************************************************************************)
(* modules/opf_editor.py                                                   *)
(*                                                                         *)
(* A descriptor is the parsed content.opf: whether it has a metadata       *)
(* container, and the children of that container in document order.  An    *)
(* element is a record of its tag, its text (a sequence of tokens) and the *)
(* attributes the editor reads: opf:scheme, id, refines (the id referred   *)
(* to, without its "#") and property.                                      *)
(***************************************************************************)
\* Whether the import of lxml succeeded.
LXML_AVAILABLE == TRUE

NoAttr == "(absent)"
UrnLower == "urn:isbn:"
UrnUpper == "URN:ISBN:"
UrnPrefixes == {UrnLower, UrnUpper}
MetaTags == {"opf:meta", "meta"}

\* str.lower() of one token
Lower(t) == IF t = UrnUpper THEN UrnLower ELSE t

RECURSIVE LStrip(_)
LStrip(t) == IF t # <<>> /\ Head(t) \in Whitespace THEN LStrip(Tail(t)) ELSE t

RECURSIVE RStrip(_)
RStrip(t) ==
    IF t # <<>> /\ t[Len(t)] \in Whitespace THEN RStrip(Slice(t, 1, Len(t) - 1)) ELSE t

\* (elem.text or "").strip()
Strip(t) == RStrip(LStrip(t))

\* isbn_value.lower().startswith("urn:isbn:")
StartsWithUrn(isbn_value) == isbn_value # <<>> /\ Lower(isbn_value[1]) = UrnLower

\* formatted_isbn without the test for a value already in URN form.
FormattedIsbnAlwaysPrefixed(isbn_value) == <<UrnLower>> \o isbn_value

\* formatted_isbn
FormattedIsbn(isbn_value) ==
    IF StartsWithUrn(isbn_value) THEN isbn_value ELSE <<UrnLower>> \o isbn_value

\* raw_isbn: isbn_value.split(":")[-1] for a value in URN form, what follows
\* its last colon; the value itself otherwise.
RawIsbn(isbn_value) ==
    IF StartsWithUrn(isbn_value)
    THEN LET colons == {i \in 1..Len(isbn_value) : isbn_value[i] \in UrnPrefixes}
             last == CHOOSE i \in colons : \A j \in colons : j <= i
         IN  Slice(isbn_value, last + 1, Len(isbn_value))
    ELSE isbn_value

NewElem(tag, text) ==
    [tag |-> tag, text |-> text, scheme |-> NoAttr, id |-> NoAttr,
     refines |-> NoAttr, property |-> NoAttr]

\* The positions of the children with the given tag: findall, in document
\* order.
FindAll(children, tag) == {i \in 1..Len(children) : children[i].tag = tag}

\* update_dc_elem with findall in the place of find: every element of the
\* kind gets the value.
update_dc_elem_all(children, name, value) ==
    IF value = <<>> THEN children
    ELSE LET found == FindAll(children, name)
         IN  IF found # {}
             THEN [i \in 1..Len(children) |->
                      IF i \in found THEN [children[i] EXCEPT !.text = value]
                      ELSE children[i]]
             ELSE Append(children, NewElem(name, value))

\* update_dc_elem(name, value): the children afterwards.
update_dc_elem(children, name, value) ==
    IF value = <<>> THEN children
    ELSE LET found == FindAll(children, name)
         IN  IF found # {}
             THEN [children EXCEPT ![Min(found)].text = value]
             ELSE Append(children, NewElem(name, value))

\* The position of the identifier element the ISBN goes to, 0 when a new
\* one is to be created: the first with opf:scheme="ISBN", else the first
\* whose stripped text is the raw or the URN form.
IsbnElemIndex(children, isbn_value) ==
    LET ids == FindAll(children, "dc:identifier")
        byScheme == {i \in ids : children[i].scheme = "ISBN"}
        byText == {i \in ids : Strip(children[i].text) \in
                                  {RawIsbn(isbn_value), FormattedIsbn(isbn_value)}}
    IN  IF byScheme # {} THEN Min(byScheme)
        ELSE IF byText # {} THEN Min(byText)
        ELSE 0

\* The children without the meta elements that refine ident_id and declare
\* the scheme property.
RemoveSchemeMetas(children, ident_id) ==
    SelectSeq(children,
        LAMBDA e : ~(/\ e.tag \in MetaTags
                     /\ e.refines = ident_id
                     /\ e.property = "opf:scheme"))

\* The part of update_opf_metadata that sets the ISBN: the children
\* afterwards.
update_isbn(children, isbn_value) ==
    IF isbn_value = <<>> THEN children
    ELSE LET k == IsbnElemIndex(children, isbn_value)
             set == IF k # 0
                    THEN [children EXCEPT ![k].text = FormattedIsbn(isbn_value),
                                          ![k].scheme = NoAttr]
                    ELSE Append(children,
                                NewElem("dc:identifier", FormattedIsbn(isbn_value)))
             ident_id == IF k # 0 THEN children[k].id ELSE NoAttr
         IN  IF ident_id # NoAttr THEN RemoveSchemeMetas(set, ident_id) ELSE set

\* update_opf_metadata(opf_path, metadata) on a parsed descriptor: whether
\* it raised, and the descriptor the file holds afterwards.
update_opf_metadata(desc, metadata) ==
    IF ~LXML_AVAILABLE THEN [raised |-> FALSE, desc |-> desc]
    ELSE IF ~desc.hasMetadata THEN [raised |-> TRUE, desc |-> desc]
    ELSE LET c1 == update_dc_elem(desc.children, "dc:title", metadata.title)
             c2 == update_dc_elem(c1, "dc:creator", metadata.creator)
             c3 == update_dc_elem(c2, "dc:subject", metadata.subject)
             c4 == update_dc_elem(c3, "dc:publisher", metadata.publisher)
             c5 == update_dc_elem(c4, "dc:description", metadata.description)
         IN  [raised |-> FALSE,
              desc |-> [desc EXCEPT !.children = update_isbn(c5, metadata.isbn)]]

(***************************************************************************)
(* Content trees                                                           *)
(*                                                                         *)
(* A tree is what a directory holds after an archive was extracted to it:  *)
(* where the content directory OEBPS lies ("top": at the root, "wrapped":  *)
(* one level down in a wrapper directory, "none": nowhere), whether there  *)
(* is a mimetype file beside it, whether there is a descriptor content.opf *)
(* in it and which, and the bytes of every other file of the content       *)
(* directory by name.  NoTree stands for a directory that does not exist.  *)
(* A file name is a record of its stem, its number (0: no digits) and its  *)
(* extension.                                                              *)
(***************************************************************************)
NoDescriptor == [hasMetadata |-> FALSE, children |-> <<>>]
NoTree ==
    [layout |-> "absent", mimetype |-> FALSE, hasOpf |-> FALSE, opf |-> NoDescriptor,
     docs |-> <<>>]
NoArchive == [written |-> FALSE, entries |-> <<>>]

FileName(stem, num, ext) == [stem |-> stem, num |-> num, ext |-> ext]

\* ELIGIBLE_FILE_PATTERN looked for anywhere in the name (re.search) instead
\* of from its start.
MatchesEligibleAnywhere(name) ==
    name.stem \in {"cap_", "xcap_"} /\ name.num > 0 /\ name.ext = ".xhtml"

\* ELIGIBLE_FILE_PATTERN: cap_\d+\.xhtml$ matched from the start of the name
MatchesEligible(name) == name.stem = "cap_" /\ name.num > 0 /\ name.ext = ".xhtml"

\* EXCLUDED_FILE_PATTERNS: parte_\d+\.xhtml$ and secao_\d+\.xhtml$
MatchesExcluded(name) ==
    name.stem \in {"parte_", "secao_"} /\ name.num > 0 /\ name.ext = ".xhtml"

\* oebps.glob("*.xhtml")
GlobXhtml(tree) == {n \in DOMAIN tree.docs : n.ext = ".xhtml"}

RECURSIVE SortedByNum(_)
\* sorted(): the names in ascending order (numbers are zero-padded to one
\* width, so the order of the paths is that of the numbers).
SortedByNum(names) ==
    IF names = {} THEN <<>>
    ELSE LET first == CHOOSE n \in names : \A m \in names : n.num <= m.num
         IN  <<first>> \o SortedByNum(names \ {first})

\* find_eligible_files(oebps_path)
find_eligible_files(tree) ==
    SortedByNum({n \in GlobXhtml(tree) : MatchesEligible(n) /\ ~MatchesExcluded(n)})

\* select_random_files drawing with replacement: the positions may repeat.
select_random_files_with_replacement(eligible_files, num_files) ==
    IF Len(eligible_files) <= num_files THEN {eligible_files}
    ELSE {[i \in 1..num_files |-> eligible_files[pick[i]]] :
            pick \in [1..num_files -> 1..Len(eligible_files)]}

\* select_random_files(eligible_files, num_files): every list the call may
\* return; random.sample draws num_files distinct positions in any order.
select_random_files(eligible_files, num_files) ==
    IF Len(eligible_files) <= num_files THEN {eligible_files}
    ELSE {[i \in 1..num_files |-> eligible_files[pick[i]]] :
            pick \in {f \in [1..num_files -> 1..Len(eligible_files)] :
                        \A i, j \in 1..num_files : i # j => f[i] # f[j]}}

RECURSIVE MarkFiles(_, _, _, _)
\* The loop of add_platform_watermarks over the selected files: the files
\* of the content directory afterwards.
MarkFiles(docs, selected, mark, sep) ==
    IF selected = <<>> THEN docs
    ELSE LET name == Head(selected)
             r == insert_watermark(docs[name], mark, sep)
         IN  MarkFiles([docs EXCEPT ![name] = r.bytes], Tail(selected), mark, sep)

RECURSIVE SumCounts(_, _, _)
SumCounts(docs, names, exclude_marks) ==
    IF names = {} THEN 0
    ELSE LET n == CHOOSE x \in names : TRUE
         IN  count_characters(ReadText(docs[n]), exclude_marks)
                + SumCounts(docs, names \ {n}, exclude_marks)

\* count_xhtml_characters(oebps_path, exclude_marks); a directory that does
\* not exist has no files to count.
count_xhtml_characters(tree, exclude_marks) ==
    SumCounts(tree.docs, GlobXhtml(tree), exclude_marks)

\* extract_epub finds a content directory at the root or one level down.
OebpsFound(tree) == tree.layout \in {"top", "wrapped"}

\* The files of a tree, each as the directories from the root and its name.
TreeFiles(tree) ==
    LET wrapper == IF tree.layout = "wrapped" THEN <<"book">> ELSE <<>>
        content == IF tree.layout = "none" THEN <<"OPS">> ELSE <<"OEBPS">>
    IN  (IF tree.mimetype
         THEN {[dir |-> wrapper, name |-> FileName("mimetype", 0, "")]} ELSE {})
        \cup (IF tree.hasOpf
              THEN {[dir |-> wrapper \o content, name |-> FileName("content", 0, ".opf")]}
              ELSE {})
        \cup {[dir |-> wrapper \o content, name |-> n] : n \in DOMAIN tree.docs}

RECURSIVE WalkOrder(_)
\* os.walk lists the files in the order of the directory listing.
WalkOrder(files) ==
    IF files = {} THEN <<>>
    ELSE LET f == CHOOSE x \in files : TRUE IN <<f>> \o WalkOrder(files \ {f})

\* create_epub(source_dir, epub_path): the entries of the archive written, in
\* order, each with the path it is stored under and whether it is stored
\* without compression.
create_epub(tree) ==
    LET mimetype == [dir |-> <<>>, name |-> FileName("mimetype", 0, "")]
        first == IF mimetype \in TreeFiles(tree)
                 THEN <<[arcname |-> mimetype, stored |-> TRUE]>> ELSE <<>>
        others == WalkOrder({f \in TreeFiles(tree) : f.name # FileName("mimetype", 0, "")})
    IN  [written |-> TRUE,
         entries |-> first \o [i \in 1..Len(others) |->
                                  [arcname |-> others[i], stored |-> FALSE]]]

(***************************************************************************)
(* mhtml_parser.py : decode_mhtml                                          *)
(*                                                                         *)
(* Bytes and code points are numbers.  A raw file is a header block and    *)
(* the bytes after it; the header block is given by what the MIME parser   *)
(* makes of it: no block at all, or one part with its content type, its    *)
(* charset parameter and its transfer encoding.                            *)
(***************************************************************************)
EqualsSign == 61
LineFeed == 10
CarriageReturn == 13
ReplacementChar == 65533
NoCharset == "(absent)"
LegacyCharset == "windows-1252"

IsHex(b) == b \in (48..57) \cup (65..70) \cup (97..102)
HexValue(b) == IF b <= 57 THEN b - 48 ELSE IF b <= 70 THEN b - 55 ELSE b - 87

RECURSIVE SkipPastLineFeed(_, _)
SkipPastLineFeed(s, i) ==
    IF i > Len(s) THEN i
    ELSE IF s[i] = LineFeed THEN i + 1 ELSE SkipPastLineFeed(s, i + 1)

RECURSIVE QpFrom(_, _)
\* binascii.a2b_qp from position i: "=" before two hex digits is the byte
\* they name, "=" at the end of a line or of the data is dropped, "==" is
\* "=", any other "=" stands for itself.
QpFrom(s, i) ==
    IF i > Len(s) THEN <<>>
    ELSE IF s[i] # EqualsSign THEN <<s[i]>> \o QpFrom(s, i + 1)
    ELSE IF i + 1 > Len(s) THEN <<>>
    ELSE IF s[i + 1] \in {LineFeed, CarriageReturn}
         THEN QpFrom(s, SkipPastLineFeed(s, i + 1))
    ELSE IF s[i + 1] = EqualsSign THEN <<EqualsSign>> \o QpFrom(s, i + 2)
    ELSE IF i + 2 <= Len(s) /\ IsHex(s[i + 1]) /\ IsHex(s[i + 2])
         THEN <<16 * HexValue(s[i + 1]) + HexValue(s[i + 2])>> \o QpFrom(s, i + 3)
    ELSE <<EqualsSign>> \o QpFrom(s, i + 1)

\* quopri.decodestring(content)
QpDecode(s) == QpFrom(s, 1)

\* The code points of the bytes 128..159 in windows-1252, the placeholder
\* for the five bytes the charset leaves undefined.
Cp1252High ==
    <<8364, 65533, 8218, 402, 8222, 8230, 8224, 8225,
      710, 8240, 352, 8249, 338, 65533, 381, 65533,
      65533, 8216, 8217, 8220, 8221, 8226, 8211, 8212,
      732, 8482, 353, 8250, 339, 65533, 382, 376>>

\* bytes.decode('windows-1252', errors='replace')
Cp1252Replace(s) ==
    [i \in 1..Len(s) |-> IF s[i] \in 128..159 THEN Cp1252High[s[i] - 127] ELSE s[i]]

\* UTF-8: the number of continuation bytes a lead byte asks for (0: the byte
\* cannot start a sequence) and the range of the first of them.
Utf8Need(b) ==
    IF b \in 194..223 THEN 1 ELSE IF b \in 224..239 THEN 2
    ELSE IF b \in 240..244 THEN 3 ELSE 0
Utf8FirstRange(b) ==
    IF b = 224 THEN 160..191 ELSE IF b = 237 THEN 128..159
    ELSE IF b = 240 THEN 144..191 ELSE IF b = 244 THEN 128..143 ELSE 128..191

RECURSIVE Utf8Matched(_, _, _, _)
\* How many of the continuation bytes asked for follow position i.
Utf8Matched(s, i, k, need) ==
    IF k > need \/ i + k > Len(s) THEN k - 1
    ELSE IF s[i + k] \in (IF k = 1 THEN Utf8FirstRange(s[i]) ELSE 128..191)
         THEN Utf8Matched(s, i, k + 1, need)
    ELSE k - 1

Utf8Lead(b) == IF b >= 240 THEN b - 240 ELSE IF b >= 224 THEN b - 224 ELSE b - 192

RECURSIVE Utf8Value(_, _, _, _)
Utf8Value(s, i, k, acc) ==
    IF k = 0 THEN acc ELSE Utf8Value(s, i + 1, k - 1, acc * 64 + (s[i + 1] - 128))

RECURSIVE Utf8From(_, _)
\* bytes.decode('utf-8', errors='replace') from position i: every maximal
\* ill-formed run becomes one placeholder.
Utf8From(s, i) ==
    IF i > Len(s) THEN <<>>
    ELSE IF s[i] < 128 THEN <<s[i]>> \o Utf8From(s, i + 1)
    ELSE LET need == Utf8Need(s[i])
             got == Utf8Matched(s, i, 1, need)
         IN  IF need > 0 /\ got = need
             THEN <<Utf8Value(s, i, need, Utf8Lead(s[i]))>> \o Utf8From(s, i + need + 1)
             ELSE <<ReplacementChar>> \o Utf8From(s, i + got + 1)

Utf8Replace(s) == Utf8From(s, 1)

\* The charsets Python has a codec for, among those of the model.
CharsetKnown(charset) == charset \in {LegacyCharset, "utf-8"}

\* payload.decode(charset, errors='replace') for a known charset
DecodeReplace(s, charset) ==
    IF charset = "utf-8" THEN Utf8Replace(s) ELSE Cp1252Replace(s)

\* The header block as the file holds it, abridged to one letter and a line
\* end; a file without header block starts with its text.
HeaderBytes(part) == IF part.type = "none" THEN <<>> ELSE <<72, LineFeed>>

\* f.read() of the file opened 'rb'
FileBytes(raw) == HeaderBytes(raw.part) \o raw.body

\* part.get_payload(decode=True)
PartPayload(raw) ==
    IF raw.part.cte = "quoted-printable" THEN QpDecode(raw.body) ELSE raw.body

\* The fallback of decode_mhtml: quopri.decodestring and a decode with
\* errors='replace' return for every bytes value, so the except clause that
\* decodes as UTF-8 is never entered.
DecodeLegacy(raw) ==
    [raised |-> FALSE, stage |-> "legacy", text |-> Cp1252Replace(QpDecode(FileBytes(raw)))]

\* decode_mhtml without the try around the MIME stage.
decode_mhtml_uncaught(raw) ==
    IF raw.part.type = "text/html"
    THEN LET charset == IF raw.part.charset = NoCharset THEN LegacyCharset
                        ELSE raw.part.charset
         IN  IF CharsetKnown(charset)
             THEN [raised |-> FALSE, stage |-> "mime",
                   text |-> DecodeReplace(PartPayload(raw), charset)]
             ELSE [raised |-> TRUE, stage |-> "mime", text |-> <<>>]
    ELSE DecodeLegacy(raw)

\* decode_mhtml(mhtml_path): the text returned, the stage that produced it
\* and whether an exception left the function instead.
decode_mhtml(raw) ==
    IF raw.part.type = "text/html"
    THEN LET charset == IF raw.part.charset = NoCharset THEN LegacyCharset
                        ELSE raw.part.charset
         IN  IF CharsetKnown(charset)
             THEN [raised |-> FALSE, stage |-> "mime",
                   text |-> DecodeReplace(PartPayload(raw), charset)]
             ELSE DecodeLegacy(raw)
    ELSE DecodeLegacy(raw)

(***************************************************************************)
(* mhtml_parser.py : parse_subject_from_classification                     *)
(*                                                                         *)
(* A classification is a sequence of characters; the label put before a    *)
(* subject is one token.                                                   *)
(***************************************************************************)
PsicologiaPrefix == "Psicologia > "

RECURSIVE FindSeparator(_, _)
\* The position of the first " - " at or after position i, 0 if there is
\* none: where split(" - ", 1) splits.
FindSeparator(s, i) ==
    IF i + 2 > Len(s) THEN 0
    ELSE IF s[i] = " " /\ s[i + 1] = "-" /\ s[i + 2] = " " THEN i
    ELSE FindSeparator(s, i + 1)

\* classification.startswith("33")
StartsWith33(s) == Len(s) >= 2 /\ s[1] = "3" /\ s[2] = "3"

\* parse_subject_from_classification that never adds the label.
parse_subject_without_label(classification) ==
    IF classification = <<>> THEN <<>>
    ELSE LET k == FindSeparator(classification, 1)
         IN  IF k = 0 THEN classification
             ELSE Strip(Slice(classification, k + 3, Len(classification)))

\* parse_subject_from_classification(classification)
parse_subject_from_classification(classification) ==
    IF classification = <<>> THEN <<>>
    ELSE LET k == FindSeparator(classification, 1)
         IN  IF k = 0 THEN classification
             ELSE LET subject == Strip(Slice(classification, k + 3, Len(classification)))
                  IN  IF StartsWith33(classification)
                      THEN <<PsicologiaPrefix>> \o subject
                      ELSE subject

(***************************************************************************)
(* main.py : the steps of main()                                           *)
(***************************************************************************)
TempOriginal == "_temp_original"

\* platform_extract when every platform works in the directory of the
\* original extraction.
PlatformExtractShared(p) == TempOriginal

\* platform_extract: the directory the copy of a platform is made in.
PlatformExtract(p) == p

\* "if not isbn" of main(), without the test.
IsbnMissingNever(metadata) == FALSE

\* "if not isbn" of main()
IsbnMissing(metadata) == metadata.isbn = <<>>

\* The order of the steps with the integrity check after the archives.
PhaseAfterArchiveFirst(phase) ==
    CASE phase = "copy"    -> "update"
      [] phase = "update"  -> "mark"
      [] phase = "mark"    -> "archive"
      [] phase = "archive" -> "verify"
      [] phase = "verify"  -> "finish"

\* The step that follows each of the steps 3 to 7 of main().
PhaseAfter(phase) ==
    CASE phase = "copy"    -> "update"
      [] phase = "update"  -> "mark"
      [] phase = "mark"    -> "verify"
      [] phase = "verify"  -> "archive"
      [] phase = "archive" -> "finish"

\* What follows the integrity report when a failed check ends the run.
AfterReportGated(all_passed) ==
    IF all_passed THEN [pc |-> PhaseAfter("verify"), outcome |-> "running"]
    ELSE [pc |-> "end", outcome |-> "exit1"]

\* What follows the integrity report: all_passed only chooses the message.
AfterReport(all_passed) == [pc |-> PhaseAfter("verify"), outcome |-> "running"]

(***************************************************************************)
(* State                                                                   *)
(***************************************************************************)
VARIABLES
    linesep,    \* os.linesep of the host the program runs on
    mfile,      \* watermark study: the bytes of the content document
    morig,      \* watermark study: the bytes it held at first
    mprev,      \* watermark study: the bytes it held before the last call
    mmark,      \* watermark study: the glyph of the last call, or NoMark
    mres,       \* watermark study: [written, ret] of the last call
    mcalls,     \* watermark study: the number of calls made
    opf,        \* descriptor study: the descriptor the file holds
    opf0,       \* descriptor study: the descriptor it held at first
    opf1,       \* descriptor study: the descriptor after the first call
    orec,       \* descriptor study: the metadata record of every call
    oraised,    \* descriptor study: whether the last call raised
    ocalls,     \* descriptor study: the number of calls made
    pc,         \* main(): the step to take next
    idx,        \* main(): the position in PLATFORMS of the loop of that step
    outcome,    \* main(): "running", "done", "exit1" (sys.exit(1)) or
                \*         "exception" (an exception nothing caught)
    inputs,     \* main(): which input files are there to be located
    epub,       \* main(): the tree the input archive holds
    metadata,   \* main(): the record extract_metadata_from_mhtml returns
    dirs,       \* the output directories that exist
    fs,         \* the tree in the directory of each extraction, or NoTree
    archives,   \* the archive written for each platform, or NoArchive
    original_count,     \* main(): the count taken before the copies
    platform_oebps,     \* main(): the directory of the copy of each platform
    integrity_results,  \* main(): what verify_all_platforms returned
    baseline,   \* history: the tree as first extracted
    edited,     \* history: the platforms whose step 4 is done
    marked,     \* history: the platforms whose step 5 is done
    verified,   \* history: the platforms whose copy the check has read
    removed,    \* history: the platforms whose copy was deleted
    raisedFor,  \* history: the platforms whose update_opf_metadata raised
    callArg,    \* function study: the argument of the call
    callRet,    \* function study: what the call returned
    callDone    \* function study: whether the call was made

markVars == <<mfile, morig, mprev, mmark, mres, mcalls>>
opfVars == <<opf, opf0, opf1, orec, oraised, ocalls>>
ctlVars == <<pc, idx, outcome>>
inVars == <<inputs, epub, metadata>>
fsVars == <<dirs, fs, archives>>
resVars == <<original_count, platform_oebps, integrity_results>>
histVars == <<baseline, edited, marked, verified, removed, raisedFor>>
mainVars == <<ctlVars, inVars, fsVars, resVars, histVars>>
callVars == <<callArg, callRet, callDone>>
vars == <<linesep, markVars, opfVars, mainVars, callVars>>

NoMark == "none"
LineSeps == {LF, CRLF}

(***************************************************************************)
(* Bounds                                                                  *)
(***************************************************************************)
MaxDocLen == 3
MaxInserts == 1
MaxElems == 2
MaxUpdates == 2
MaxTargets == 5
MaxChapterNum == 2
MaxRawLen == 3
MaxClassLen == 6

\* The tokens content documents are drawn from.
DocTokens ==
    {"x", " ", LF, CRLF, DivClose, "</body>", "</BODY>", POpen, StyleAttr, Gt, PClose,
     PLATFORM_MARKS["amazon"]}

SeqsUpTo(S, n) == UNION {[1..k -> S] : k \in 0..n}

Docs == SeqsUpTo(DocTokens, MaxDocLen)

(***************************************************************************)
(* Watermark study: insert_watermark applied to one content document       *)
(***************************************************************************)
\* The values of the variables of a study that is not running.
MarkIdle ==
    /\ mfile = <<>> /\ morig = <<>> /\ mprev = <<>>
    /\ mmark = NoMark
    /\ mres = [written |-> FALSE, ret |-> FALSE]
    /\ mcalls = 0

EmptyRecord ==
    [title |-> <<>>, creator |-> <<>>, subject |-> <<>>, publisher |-> <<>>,
     description |-> <<>>, isbn |-> <<>>]

OpfIdle ==
    /\ opf = NoDescriptor /\ opf0 = NoDescriptor /\ opf1 = NoDescriptor
    /\ orec = EmptyRecord
    /\ oraised = FALSE
    /\ ocalls = 0

TreeIds == {TempOriginal} \cup PlatformSet
NoPath == "(no path)"
NoResults == [done |-> FALSE, original_count |-> 0, platforms |-> <<>>]

MainIdle ==
    /\ pc = "end" /\ idx = 1 /\ outcome = "done"
    /\ inputs = "found" /\ epub = NoTree /\ metadata = EmptyRecord
    /\ dirs = {}
    /\ fs = [t \in TreeIds |-> NoTree]
    /\ archives = [p \in PlatformSet |-> NoArchive]
    /\ original_count = 0
    /\ platform_oebps = [p \in PlatformSet |-> NoPath]
    /\ integrity_results = NoResults
    /\ baseline = NoTree
    /\ edited = {} /\ marked = {} /\ verified = {} /\ removed = {} /\ raisedFor = {}

\* No function study is running.
CallIdle == callArg = <<>> /\ callRet = <<>> /\ callDone = FALSE

InitMark ==
    /\ CallIdle
    /\ OpfIdle
    /\ MainIdle
    /\ linesep \in LineSeps
    /\ mfile \in Docs
    /\ morig = mfile
    /\ mprev = mfile
    /\ mmark = NoMark
    /\ mres = [written |-> FALSE, ret |-> FALSE]
    /\ mcalls = 0

\* One call insert_watermark(file_path, PLATFORM_MARKS[p]).
InsertWatermark(p) ==
    /\ mcalls < MaxInserts
    /\ LET r == insert_watermark(mfile, PLATFORM_MARKS[p], linesep)
       IN  /\ mfile' = r.bytes
           /\ mres' = [written |-> r.written, ret |-> r.ret]
    /\ mprev' = mfile
    /\ mmark' = PLATFORM_MARKS[p]
    /\ mcalls' = mcalls + 1
    /\ UNCHANGED <<linesep, callVars, morig, opfVars, mainVars>>

NextMark == \E p \in PlatformSet : InsertWatermark(p)

SpecMark == InitMark /\ [][NextMark]_vars

(***************************************************************************)
(* Descriptor study: update_opf_metadata applied to one descriptor         *)
(***************************************************************************)
Digits == "978"

\* The identifier texts of the descriptors: the raw ISBN of the record with
\* whitespace around it, its URN form, another identifier.
IdTexts == {<<" ", Digits, LF>>, <<UrnLower, Digits>>, <<"123">>}

IdentifierElems ==
    {[tag |-> "dc:identifier", text |-> t, scheme |-> s, id |-> i,
      refines |-> NoAttr, property |-> NoAttr] :
        t \in IdTexts, s \in {NoAttr, "ISBN"}, i \in {NoAttr, "uid"}}

RefinementElems ==
    {[tag |-> "opf:meta", text |-> <<"ISBN">>, scheme |-> NoAttr, id |-> NoAttr,
      refines |-> "uid", property |-> q] : q \in {"opf:scheme", "dcterms:modified"}}

DescriptiveElems == {NewElem(k, <<"old">>) : k \in {"dc:title", "dc:creator"}}

Elements == IdentifierElems \cup RefinementElems \cup DescriptiveElems

Descriptors ==
    {NoDescriptor} \cup
    {[hasMetadata |-> TRUE, children |-> c] : c \in SeqsUpTo(Elements, MaxElems)}

IsbnValues == {<<>>, <<Digits>>, <<UrnLower, Digits>>, <<UrnUpper, Digits>>}

\* The records: any ISBN, a title or none, the other four fields all given
\* or all empty.
Records ==
    {[title |-> t, creator |-> IF rest THEN <<"Creator">> ELSE <<>>,
      subject |-> IF rest THEN <<"Subject">> ELSE <<>>,
      publisher |-> IF rest THEN <<"Publisher">> ELSE <<>>,
      description |-> IF rest THEN <<"Description">> ELSE <<>>,
      isbn |-> v] :
        t \in {<<>>, <<"Title">>}, rest \in BOOLEAN, v \in IsbnValues}

InitOpf ==
    /\ CallIdle
    /\ MarkIdle
    /\ MainIdle
    /\ linesep = LF
    /\ opf \in Descriptors
    /\ opf0 = opf
    /\ opf1 = opf
    /\ orec \in Records
    /\ oraised = FALSE
    /\ ocalls = 0

\* One call update_opf_metadata(opf_path, orec).
UpdateOpf ==
    /\ ocalls < MaxUpdates
    /\ LET r == update_opf_metadata(opf, orec)
       IN  /\ opf' = r.desc
           /\ oraised' = r.raised
           /\ opf1' = IF ocalls = 0 THEN r.desc ELSE opf1
    /\ ocalls' = ocalls + 1
    /\ UNCHANGED <<linesep, callVars, markVars, mainVars, opf0, orec>>

NextOpf == UpdateOpf

SpecOpf == InitOpf /\ [][NextOpf]_vars

(***************************************************************************)
(* The run: main() from its arguments to its exit                          *)
(***************************************************************************)
\* The content documents of the input archives.
GoodDoc == <<"x", DivClose, LF, "</body>">>
OpenTagDoc == <<POpen, "</body>">>
NoBodyDoc == <<"x", DivClose>>
ChapterDocs == {GoodDoc, OpenTagDoc, NoBodyDoc}

\* The chapter numbers of the input archives: no chapter, fewer chapters
\* than NUM_FILES_TO_MARK, more of them.
ChapterSets == {{}, {1, 2}, {1, 2, 3, 4}}

GoodDescriptor ==
    [hasMetadata |-> TRUE,
     children |-> <<NewElem("dc:title", <<"old">>),
                    [tag |-> "dc:identifier", text |-> <<"123">>, scheme |-> "ISBN",
                     id |-> "uid", refines |-> NoAttr, property |-> NoAttr]>>]

\* The files of the content directory: the chapters, all holding doc, a
\* part page and an introduction.
DocsOf(chapters, doc) ==
    LET names == {FileName("cap_", n, ".xhtml") : n \in chapters}
                    \cup {FileName("parte_", 1, ".xhtml"), FileName("intro", 0, ".xhtml")}
    IN  [n \in names |-> IF n.stem = "cap_" THEN doc ELSE GoodDoc]

\* No descriptor, a descriptor without metadata container, a usual one.
OpfChoices ==
    {[hasOpf |-> FALSE, opf |-> NoDescriptor], [hasOpf |-> TRUE, opf |-> NoDescriptor],
     [hasOpf |-> TRUE, opf |-> GoodDescriptor]}

Epubs ==
    {[layout |-> l, mimetype |-> TRUE, hasOpf |-> o.hasOpf, opf |-> o.opf,
      docs |-> DocsOf(c, doc)] :
        l \in {"top", "wrapped"}, o \in OpfChoices, c \in ChapterSets, doc \in ChapterDocs}
    \cup {[layout |-> "none", mimetype |-> TRUE, hasOpf |-> TRUE, opf |-> GoodDescriptor,
           docs |-> DocsOf({1, 2}, GoodDoc)]}

MainRecords ==
    {[title |-> <<"Title">>, creator |-> <<"Creator">>, subject |-> <<"Subject">>,
      publisher |-> <<"Publisher">>, description |-> <<>>, isbn |-> v] :
        v \in {<<>>, <<Digits>>}}

Init ==
    /\ CallIdle
    /\ MarkIdle
    /\ OpfIdle
    /\ linesep \in LineSeps
    /\ pc = "locate" /\ idx = 1 /\ outcome = "running"
    /\ inputs \in {"found", "no mhtml", "no epub"}
    /\ epub \in Epubs
    /\ metadata \in MainRecords
    /\ dirs = {}
    /\ fs = [t \in TreeIds |-> NoTree]
    /\ archives = [p \in PlatformSet |-> NoArchive]
    /\ original_count = 0
    /\ platform_oebps = [p \in PlatformSet |-> NoPath]
    /\ integrity_results = NoResults
    /\ baseline = NoTree
    /\ edited = {} /\ marked = {} /\ verified = {} /\ removed = {} /\ raisedFor = {}

Running(step) == outcome = "running" /\ pc = step

\* The loop of a step moves to the next platform, or the run to the next
\* step.
Advance(phase) ==
    IF idx < Len(PLATFORMS)
    THEN pc' = phase /\ idx' = idx + 1
    ELSE pc' = PhaseAfter(phase) /\ idx' = 1

\* main(), up to step 1: the input and output directories are made and the
\* input files located.
LocateInputs ==
    /\ Running("locate")
    /\ dirs' = dirs \cup {"input", "output"}
    /\ IF inputs = "found"
       THEN pc' = "metadata" /\ outcome' = "running"
       ELSE pc' = "end" /\ outcome' = "exit1"
    /\ UNCHANGED <<linesep, callVars, markVars, opfVars, idx, inVars, fs, archives, resVars, histVars>>

\* Step 1: the record is extracted; a record without ISBN ends the run.
ExtractMetadata ==
    /\ Running("metadata")
    /\ IF IsbnMissing(metadata)
       THEN pc' = "end" /\ outcome' = "exit1"
       ELSE pc' = "dirs" /\ outcome' = "running"
    /\ UNCHANGED <<linesep, callVars, markVars, opfVars, idx, inVars, fsVars, resVars, histVars>>

\* Step 2: output/<isbn> and one directory per platform in it.
CreateDirs ==
    /\ Running("dirs")
    /\ dirs' = dirs \cup {"output/isbn"} \cup PlatformSet
    /\ pc' = "extract"
    /\ UNCHANGED <<linesep, callVars, markVars, opfVars, idx, outcome, inVars, fs, archives,
                   resVars, histVars>>

\* Step 3, first half: the archive is extracted to _temp_original and the
\* characters of the original are counted.
ExtractEpub ==
    /\ Running("extract")
    /\ IF OebpsFound(epub)
       THEN /\ fs' = [fs EXCEPT ![TempOriginal] = epub]
            /\ baseline' = epub
            /\ original_count' = count_xhtml_characters(epub, TRUE)
            /\ pc' = "copy" /\ outcome' = "running"
       ELSE /\ fs' = [fs EXCEPT ![TempOriginal] = NoTree]
            /\ pc' = "end" /\ outcome' = "exit1"
            /\ UNCHANGED <<baseline, original_count>>
    /\ UNCHANGED <<linesep, callVars, markVars, opfVars, idx, inVars, dirs, archives,
                   platform_oebps, integrity_results,
                   edited, marked, verified, removed, raisedFor>>

\* Step 3, the loop: the extraction is copied to the directory of the
\* platform.
CopyPlatform ==
    /\ Running("copy")
    /\ LET p == PLATFORMS[idx]
       IN  /\ fs' = [fs EXCEPT ![PlatformExtract(p)] = fs[TempOriginal]]
           /\ platform_oebps' = [platform_oebps EXCEPT ![p] = PlatformExtract(p)]
    /\ Advance("copy")
    /\ UNCHANGED <<linesep, callVars, markVars, opfVars, outcome, inVars, dirs, archives,
                   original_count, integrity_results, histVars>>

\* Step 4, the loop: the descriptor of the copy is updated when there is
\* one; an exception of update_opf_metadata is not caught.
UpdateMetadata ==
    /\ Running("update")
    /\ LET p == PLATFORMS[idx]
           tree == fs[platform_oebps[p]]
       IN  IF ~tree.hasOpf
           THEN /\ edited' = edited \cup {p}
                /\ Advance("update")
                /\ UNCHANGED <<fs, outcome, raisedFor>>
           ELSE LET r == update_opf_metadata(tree.opf, metadata)
                IN  IF r.raised
                    THEN /\ raisedFor' = raisedFor \cup {p}
                         /\ pc' = "end" /\ outcome' = "exception"
                         /\ UNCHANGED <<fs, idx, edited>>
                    ELSE /\ fs' = [fs EXCEPT ![platform_oebps[p]].opf = r.desc]
                         /\ edited' = edited \cup {p}
                         /\ Advance("update")
                         /\ UNCHANGED <<outcome, raisedFor>>
    /\ UNCHANGED <<linesep, callVars, markVars, opfVars, inVars, dirs, archives, resVars,
                   baseline, marked, verified, removed>>

\* Step 5, the loop: add_platform_watermarks on the copy of the platform.
AddWatermarks ==
    /\ Running("mark")
    /\ LET p == PLATFORMS[idx]
           tree == fs[platform_oebps[p]]
           eligible == find_eligible_files(tree)
       IN  IF eligible = <<>>
           THEN UNCHANGED fs
           ELSE \E selected \in select_random_files(eligible, NUM_FILES_TO_MARK) :
                   fs' = [fs EXCEPT ![platform_oebps[p]].docs =
                             MarkFiles(tree.docs, selected, PLATFORM_MARKS[p], linesep)]
    /\ marked' = marked \cup {PLATFORMS[idx]}
    /\ Advance("mark")
    /\ UNCHANGED <<linesep, callVars, markVars, opfVars, outcome, inVars, dirs, archives, resVars,
                   baseline, edited, verified, removed, raisedFor>>

\* verify_all_platforms(original_oebps, platform_dirs)
verify_all_platforms(original, copies) ==
    LET count == count_xhtml_characters(original, TRUE)
    IN  [done |-> TRUE,
         original_count |-> count,
         platforms |->
            [p \in DOMAIN copies |->
                LET modified_count == count_xhtml_characters(copies[p], TRUE)
                IN  [count |-> modified_count,
                     passed |-> (count = modified_count),
                     difference |-> modified_count - count]]]

\* Step 6: the integrity of every copy is checked and reported.
VerifyIntegrity ==
    /\ Running("verify")
    /\ LET results == verify_all_platforms(fs[TempOriginal],
                          [p \in PlatformSet |-> fs[platform_oebps[p]]])
           all_passed == \A p \in PlatformSet : results.platforms[p].passed
       IN  /\ integrity_results' = results
           /\ pc' = AfterReport(all_passed).pc
           /\ outcome' = AfterReport(all_passed).outcome
    /\ verified' = PlatformSet
    /\ idx' = 1
    /\ UNCHANGED <<linesep, callVars, markVars, opfVars, inVars, fsVars, original_count,
                   platform_oebps, baseline, edited, marked, removed, raisedFor>>

\* Step 7, the loop: the archive of the platform is written from its copy
\* and the copy deleted.
CreateEpub ==
    /\ Running("archive")
    /\ LET p == PLATFORMS[idx]
       IN  /\ archives' = [archives EXCEPT ![p] = create_epub(fs[PlatformExtract(p)])]
           /\ fs' = [fs EXCEPT ![PlatformExtract(p)] = NoTree]
           /\ removed' = removed \cup {p}
    /\ Advance("archive")
    /\ UNCHANGED <<linesep, callVars, markVars, opfVars, outcome, inVars, dirs, resVars,
                   baseline, edited, marked, verified, raisedFor>>

\* The end of main(): _temp_original is deleted.
Finish ==
    /\ Running("finish")
    /\ fs' = [fs EXCEPT ![TempOriginal] = NoTree]
    /\ pc' = "end" /\ outcome' = "done"
    /\ UNCHANGED <<linesep, callVars, markVars, opfVars, idx, inVars, dirs, archives, resVars,
                   histVars>>

Next ==
    \/ LocateInputs
    \/ ExtractMetadata
    \/ CreateDirs
    \/ ExtractEpub
    \/ CopyPlatform
    \/ UpdateMetadata
    \/ AddWatermarks
    \/ VerifyIntegrity
    \/ CreateEpub
    \/ Finish

Spec == Init /\ [][Next]_vars

(***************************************************************************)
(* Sampling study: select_random_files applied to one list of targets      *)
(***************************************************************************)
\* The lists of distinct paths of up to MaxTargets chapters, in any order.
TargetLists ==
    {t \in SeqsUpTo({FileName("cap_", n, ".xhtml") : n \in 1..MaxTargets}, MaxTargets) :
        \A i, j \in 1..Len(t) : i # j => t[i] # t[j]}

InitSample ==
    /\ MarkIdle
    /\ OpfIdle
    /\ MainIdle
    /\ linesep = LF
    /\ callArg \in TargetLists
    /\ callRet = <<>>
    /\ callDone = FALSE

\* One call select_random_files(targets), with the default num_files.
SelectRandomFiles ==
    /\ ~callDone
    /\ callRet' \in select_random_files(callArg, NUM_FILES_TO_MARK)
    /\ callDone' = TRUE
    /\ UNCHANGED <<linesep, markVars, opfVars, mainVars, callArg>>

NextSample == SelectRandomFiles

SpecSample == InitSample /\ [][NextSample]_vars

(***************************************************************************)
(* Claims                                                                  *)
(***************************************************************************)
\* The content tree that holds one chapter, with the given bytes.
TreeOfOne(bytes) ==
    [layout |-> "top", mimetype |-> TRUE, hasOpf |-> FALSE, opf |-> NoDescriptor,
     docs |-> [n \in {FileName("cap_", 1, ".xhtml")} |-> bytes]]

\* C1 (count invariant): the marker-insensitive character count of a content
\* document is the same after any number of markings, with any platform
\* glyphs, as before the first one.
CountInvariant ==
    count_xhtml_characters(TreeOfOne(mfile), TRUE)
        = count_xhtml_characters(TreeOfOne(morig), TRUE)


\* The document d with the marker block of glyph g and one newline nl put
\* before position j, every other token kept.
WithMarkerAt(d, j, g, nl) ==
    Slice(d, 1, j - 1) \o <<POpen, StyleAttr, Gt, g, PClose, nl>> \o Slice(d, j, Len(d))

\* Position j of d holds a closing body tag that a closing div tag precedes
\* with nothing but whitespace between them.
DivPrecedes(d, j) ==
    /\ d[j] \in BodyCloseTags
    /\ \E i \in 1..(j - 1) :
          /\ d[i] = DivClose
          /\ \A k \in (i + 1)..(j - 1) : d[k] \in {" ", LF, CRLF}

HasBodyClose(d) == \E j \in 1..Len(d) : d[j] \in BodyCloseTags

\* What C9 asks of one insertion that turns the document old into new.
PlacedOnce(old, new, g) ==
    IF \E j \in 1..Len(old) : DivPrecedes(old, j)
    THEN \E j \in 1..Len(old), nl \in LineSeps :
            DivPrecedes(old, j) /\ new = WithMarkerAt(old, j, g, nl)
    ELSE \E j \in 1..Len(old), nl \in LineSeps :
            /\ old[j] \in BodyCloseTags
            /\ \A k \in 1..(j - 1) : old[k] \notin BodyCloseTags
            /\ new = WithMarkerAt(old, j, g, nl)

\* C9 (insertion placement): after insert_watermark on a document with a
\* closing body tag, the file is the original document with the marker block
\* and one newline added between the closing div and the closing body tag
\* (or right before the first closing body tag when no closing div precedes
\* one), every other character unchanged and in the same order.
InsertionPlacement ==
    (mcalls > 0 /\ HasBodyClose(mprev)) => PlacedOnce(mprev, mfile, mmark)

\* The same statement about the decoded text of the file (what read()
\* returns) instead of the characters the file holds.
InsertionPlacementOfText ==
    (mcalls > 0 /\ HasBodyClose(mprev)) =>
        PlacedOnce(ReadText(mprev), ReadText(mfile), mmark)

\* C10 (no anchor, no change): after insert_watermark on a document with no
\* closing body tag in any letter case, the file holds what it held, no
\* write was made and the call returned False.
NoAnchorNoChange ==
    (mcalls > 0 /\ ~HasBodyClose(mprev)) =>
        (mfile = mprev /\ ~mres.written /\ mres.ret = FALSE)

\* C10 witness: a call was made on a non-empty document that has a closing
\* div tag and a line break but no closing body tag.
NoAnchorWitness ==
    /\ mcalls > 0
    /\ ~HasBodyClose(mprev)
    /\ \E i \in 1..Len(mprev) : mprev[i] = DivClose
    /\ \E i \in 1..Len(mprev) : mprev[i] = CRLF
    /\ mres.ret = FALSE


\* C3 (identifier idempotence): a second call of update_opf_metadata with
\* the same record leaves the descriptor as the first call left it, and
\* adds no identifier element.
IdentifierIdempotence ==
    ocalls >= 2 =>
        /\ opf = opf1
        /\ Cardinality(FindAll(opf.children, "dc:identifier"))
              = Cardinality(FindAll(opf1.children, "dc:identifier"))

\* The part of C3 about the number of identifier elements alone.
IdentifiersDoNotGrow ==
    ocalls >= 2 =>
        Cardinality(FindAll(opf.children, "dc:identifier"))
            = Cardinality(FindAll(opf1.children, "dc:identifier"))


DescriptiveKinds ==
    {"dc:title", "dc:creator", "dc:subject", "dc:publisher", "dc:description"}

\* The value the record gives for a descriptive kind.
RecordValue(rec, kind) ==
    CASE kind = "dc:title"       -> rec.title
      [] kind = "dc:creator"     -> rec.creator
      [] kind = "dc:subject"     -> rec.subject
      [] kind = "dc:publisher"   -> rec.publisher
      [] kind = "dc:description" -> rec.description

AllFieldsGiven(rec) ==
    /\ \A k \in DescriptiveKinds : RecordValue(rec, k) # <<>>
    /\ rec.isbn # <<>>

\* The identifier elements of a container, in document order.
IdentifiersOf(children) == SelectSeq(children, LAMBDA e : e.tag = "dc:identifier")

\* The URN form of an ISBN: the value itself when it starts with the URN
\* prefix (in either letter case), the prefix and the value otherwise.
UrnForm(isbn) ==
    IF isbn[1] \in UrnPrefixes THEN isbn ELSE <<"urn:isbn:">> \o isbn

\* What follows the URN prefix of an ISBN, the ISBN itself when it has none.
DigitsOf(isbn) == IF isbn[1] \in UrnPrefixes THEN Tail(isbn) ELSE isbn

\* Which of the identifier elements ids the ISBN is to go to: the first
\* that carries opf:scheme="ISBN", else the first whose text (whitespace
\* around it aside) is the ISBN or its URN form, else a new last one.
ChosenIdentifier(ids, isbn) ==
    LET scheme == {n \in 1..Len(ids) : ids[n].scheme = "ISBN"}
        same == {n \in 1..Len(ids) :
                    \E a, b \in SeqsUpTo({" ", LF}, 1) :
                        \/ ids[n].text = a \o DigitsOf(isbn) \o b
                        \/ ids[n].text = a \o UrnForm(isbn) \o b}
    IN  IF scheme # {} THEN CHOOSE n \in scheme : \A m \in scheme : n <= m
        ELSE IF same # {} THEN CHOOSE n \in same : \A m \in same : n <= m
        ELSE Len(ids) + 1

MalformedDescriptorIsolated ==
    (pc = "end" /\ raisedFor # {}) =>
        \A p \in PlatformSet \ raisedFor :
            /\ p \in edited
            /\ p \in marked
            /\ p \in verified
            /\ archives[p].written

StepOrdering ==
    /\ \A p \in verified : p \in edited /\ p \in marked
    /\ \A p \in PlatformSet : (archives[p].written \/ p \in removed) => p \in verified

\* C6 witness: a run over a descriptor and markable chapters ended with
\* every platform edited, marked, checked and archived.
StepOrderingWitness ==
    /\ pc = "end" /\ outcome = "done"
    /\ epub.hasOpf
    /\ integrity_results.done
    /\ \A p \in PlatformSet :
          /\ p \in edited /\ p \in marked /\ p \in verified /\ p \in removed
          /\ archives[p].written

\* C7 (the original tree is never mutated): from its extraction until main()
\* deletes it at its end, _temp_original holds the tree as extracted, and
\* the original count verify_all_platforms recomputes is the one taken
\* before the copies were made.
OriginalNeverMutated ==
    /\ (baseline # NoTree /\ ~(pc = "end" /\ outcome = "done")) =>
          fs[TempOriginal] = baseline
    /\ integrity_results.done => integrity_results.original_count = original_count

\* C7 witness: the integrity check is done, the copy of a platform has
\* another descriptor and other content documents than the original, and
\* the original is still there.
OriginalNeverMutatedWitness ==
    /\ integrity_results.done
    /\ pc = "archive" /\ idx = 1
    /\ fs[TempOriginal] = baseline
    /\ \E p \in PlatformSet :
          /\ fs[p] # NoTree
          /\ fs[p].opf # baseline.opf
          /\ fs[p].docs # baseline.docs

\* Some platform failed the integrity check.
SomeCheckFailed ==
    /\ integrity_results.done
    /\ \E p \in PlatformSet : ~integrity_results.platforms[p].passed

\* C8 (an integrity mismatch is not fatal): once the check has reported a
\* failed platform the run does not exit; it goes on with the archives, and
\* at its end the archive of every platform is written, those of the failed
\* platforms included.
MismatchNonFatal ==
    SomeCheckFailed =>
        /\ outcome \in {"running", "done"}
        /\ outcome = "running" => pc \in {"archive", "finish"}
        /\ outcome = "done" => \A p \in PlatformSet : archives[p].written

\* C8 witness: a run in which a platform failed the check has ended, with
\* the archive of that platform written.
MismatchNonFatalWitness ==
    /\ pc = "end" /\ outcome = "done"
    /\ \E p \in PlatformSet :
          /\ integrity_results.done
          /\ ~integrity_results.platforms[p].passed
          /\ integrity_results.platforms[p].difference # 0
          /\ archives[p].written

(***************************************************************************)
(* Eligibility study: find_eligible_files applied to one content directory *)
(***************************************************************************)
\* The file names a content directory may hold: chapters with and without
\* digits, a chapter with another extension, a name that only ends like a
\* chapter, a part, a section, an introduction.
ListingNames ==
    {FileName("cap_", n, ".xhtml") : n \in 0..MaxChapterNum}
    \cup {FileName("cap_", 1, ".html"), FileName("xcap_", 1, ".xhtml"),
          FileName("parte_", 1, ".xhtml"), FileName("secao_", 1, ".xhtml"),
          FileName("intro", 0, ".xhtml")}

\* The content directory that holds the files of these names.
ListingOf(names) ==
    [layout |-> "top", mimetype |-> TRUE, hasOpf |-> FALSE, opf |-> NoDescriptor,
     docs |-> [n \in names |-> GoodDoc]]

InitEligible ==
    /\ MarkIdle
    /\ OpfIdle
    /\ MainIdle
    /\ linesep = LF
    /\ callArg \in {ListingOf(names) : names \in SUBSET ListingNames}
    /\ callRet = <<>>
    /\ callDone = FALSE

\* One call find_eligible_files(oebps_path).
FindEligibleFiles ==
    /\ ~callDone
    /\ callRet' = find_eligible_files(callArg)
    /\ callDone' = TRUE
    /\ UNCHANGED <<linesep, markVars, opfVars, mainVars, callArg>>

NextEligible == FindEligibleFiles

SpecEligible == InitEligible /\ [][NextEligible]_vars

(***************************************************************************)
(* Decoding study: decode_mhtml applied to one raw file                    *)
(***************************************************************************)
\* The bytes of the files: "=", the digits 8 and 1, a line end, and e acute
\* in windows-1252.
RawBytes == {EqualsSign, 56, 49, LineFeed, 233}

\* What the MIME parser makes of the header block.
Parts ==
    {[type |-> "none", charset |-> NoCharset, cte |-> "8bit"],
     [type |-> "text/plain", charset |-> NoCharset, cte |-> "8bit"]}
    \cup {[type |-> "text/html", charset |-> c, cte |-> e] :
            c \in {NoCharset, LegacyCharset, "utf-8", "x-unknown"},
            e \in {"8bit", "quoted-printable"}}

RawFiles == {[part |-> p, body |-> b] : p \in Parts, b \in SeqsUpTo(RawBytes, MaxRawLen)}

InitDecode ==
    /\ MarkIdle
    /\ OpfIdle
    /\ MainIdle
    /\ linesep = LF
    /\ callArg \in RawFiles
    /\ callRet = <<>>
    /\ callDone = FALSE

\* One call decode_mhtml(mhtml_path).
DecodeMhtml ==
    /\ ~callDone
    /\ callRet' = decode_mhtml(callArg)
    /\ callDone' = TRUE
    /\ UNCHANGED <<linesep, markVars, opfVars, mainVars, callArg>>

NextDecode == DecodeMhtml

SpecDecode == InitDecode /\ [][NextDecode]_vars

(***************************************************************************)
(* Classification study: parse_subject_from_classification applied to one  *)
(* classification                                                          *)
(***************************************************************************)
ClassChars == {"3", " ", "-", "x"}

Classifications == SeqsUpTo(ClassChars, MaxClassLen)

InitClass ==
    /\ MarkIdle
    /\ OpfIdle
    /\ MainIdle
    /\ linesep = LF
    /\ callArg \in Classifications
    /\ callRet = <<>>
    /\ callDone = FALSE

\* One call parse_subject_from_classification(classification).
ParseSubject ==
    /\ ~callDone
    /\ callRet' = parse_subject_from_classification(callArg)
    /\ callDone' = TRUE
    /\ UNCHANGED <<linesep, markVars, opfVars, mainVars, callArg>>

NextClass == ParseSubject

SpecClass == InitClass /\ [][NextClass]_vars

(***************************************************************************)
(* Sampling                                                                *)
(***************************************************************************)
\* C11 (sampling bound): whichever positions the random source draws,
\* select_random_files(targets, 3) returns at most 3 items: the list of
\* targets itself when it has at most 3 items and exactly 3 items otherwise;
\* every item returned is one of the targets and none is returned twice.
SamplingBound ==
    callDone =>
        /\ Len(callRet) <= NUM_FILES_TO_MARK
        /\ Len(callArg) <= NUM_FILES_TO_MARK => callRet = callArg
        /\ Len(callArg) > NUM_FILES_TO_MARK => Len(callRet) = NUM_FILES_TO_MARK
        /\ \A i \in 1..Len(callRet) : \E k \in 1..Len(callArg) : callRet[i] = callArg[k]
        /\ \A i, j \in 1..Len(callRet) : i # j => callRet[i] # callRet[j]

\* C11 witness: a sample of 3 out of more targets, not in the order of the
\* list.
SamplingWitness ==
    /\ callDone
    /\ Len(callArg) > NUM_FILES_TO_MARK
    /\ Len(callRet) = NUM_FILES_TO_MARK
    /\ callRet[1] = callArg[Len(callArg)]
    /\ callRet[2] = callArg[1]

(***************************************************************************)
(* Eligibility                                                             *)
(***************************************************************************)
\* A name of the form cap_<digits>.xhtml, parte_<digits>.xhtml or
\* secao_<digits>.xhtml.
HasForm(name, stem) == name = FileName(stem, name.num, ".xhtml") /\ name.num >= 1

\* C12 (eligibility filtering): find_eligible_files returns exactly the
\* files of the content directory whose name is cap_<digits>.xhtml and neither
\* parte_<digits>.xhtml nor secao_<digits>.xhtml, each once, in ascending
\* order of path; of cap_001, cap_002, parte_01, secao_01 and intro it
\* returns the two chapters.
EligibilityFiltering ==
    callDone =>
        /\ {callRet[i] : i \in 1..Len(callRet)}
              = {n \in DOMAIN callArg.docs :
                    /\ HasForm(n, "cap_")
                    /\ ~HasForm(n, "parte_")
                    /\ ~HasForm(n, "secao_")}
        /\ \A i, j \in 1..Len(callRet) : i < j => callRet[i].num < callRet[j].num
        /\ DOMAIN callArg.docs
              = {FileName("cap_", 1, ".xhtml"), FileName("cap_", 2, ".xhtml"),
                 FileName("parte_", 1, ".xhtml"), FileName("secao_", 1, ".xhtml"),
                 FileName("intro", 0, ".xhtml")}
           => callRet = <<FileName("cap_", 1, ".xhtml"), FileName("cap_", 2, ".xhtml")>>

\* C12 witness: two chapters are returned from a directory that also holds
\* a part, a section, an introduction and a name that only ends like a
\* chapter.
EligibilityWitness ==
    /\ callDone
    /\ Len(callRet) = 2
    /\ {FileName("xcap_", 1, ".xhtml"), FileName("parte_", 1, ".xhtml"),
        FileName("secao_", 1, ".xhtml"), FileName("intro", 0, ".xhtml")}
          \subseteq DOMAIN callArg.docs

(***************************************************************************)
(* Archives                                                                *)
(***************************************************************************)
\* The archive holds the mimetype entry first and stored, then every other
\* file of the tree once, compressed, under its path from the root.
WellFormedArchive(archive, tree) ==
    LET e == archive.entries
    IN  /\ Len(e) >= 1
        /\ e[1].arcname.name = FileName("mimetype", 0, "")
        /\ e[1].stored
        /\ \A i \in 2..Len(e) : ~e[i].stored
        /\ \A i \in 1..Len(e) : e[i].arcname \in TreeFiles(tree)
        /\ \A f \in TreeFiles(tree) :
              Cardinality({i \in 1..Len(e) : e[i].arcname = f}) = 1

\* C13 (archive writing): the archive create_epub writes for a platform has
\* the mimetype entry first and uncompressed, then every remaining file of
\* the tree exactly once, compressed, under its relative path, and leaves no
\* file out; for every tree the run accepts, one nested under a wrapper
\* directory included.
ArchiveWriting ==
    \A p \in PlatformSet :
        archives[p].written => WellFormedArchive(archives[p], baseline)

\* The same for the trees whose content directory lies at the root.
ArchiveWritingAtRoot ==
    \A p \in PlatformSet :
        (archives[p].written /\ baseline.layout = "top")
            => WellFormedArchive(archives[p], baseline)

(***************************************************************************)
(* Decoding                                                                *)
(***************************************************************************)
\* The MIME stage gives no text: there is no HTML part, or decoding it
\* raised because Python has no codec for its charset.
MimeStageFails(raw) ==
    \/ raw.part.type # "text/html"
    \/ raw.part.charset \notin {NoCharset, LegacyCharset, "utf-8"}

\* C14 (decoding never raises): decode_mhtml returns a string for every raw
\* file and no exception leaves it; when the MIME stage fails or finds no
\* HTML part the string is the whole file decoded as quoted-printable in the
\* legacy charset, undecodable bytes replaced by the placeholder.
DecodingNeverRaises ==
    callDone =>
        /\ ~callRet.raised
        /\ callRet.text \in Seq(0..1114111)
        /\ MimeStageFails(callArg) =>
              /\ callRet.stage = "legacy"
              /\ callRet.text = Cp1252Replace(QpDecode(FileBytes(callArg)))
              /\ \A i \in 1..Len(callRet.text) :
                    callRet.text[i] \notin {129, 141, 143, 144, 157}

\* C14 witness: the HTML part names a charset Python does not know, and the
\* fallback returned a text with a placeholder in it.
DecodingWitness ==
    /\ callDone
    /\ callArg.part.type = "text/html"
    /\ callArg.part.charset = "x-unknown"
    /\ ~callRet.raised
    /\ \E i \in 1..Len(callRet.text) : callRet.text[i] = ReplacementChar

(***************************************************************************)
(* Classification                                                          *)
(***************************************************************************)
\* The positions at which " - " occurs.
SeparatorsOf(c) ==
    {i \in 1..Len(c) : i + 2 <= Len(c) /\ <<c[i], c[i + 1], c[i + 2]>> = <<" ", "-", " ">>}

\* The two parts around the first " - ".
CodeSegment(c) == SubSeq(c, 1, Min(SeparatorsOf(c)) - 1)
SecondPart(c) == SubSeq(c, Min(SeparatorsOf(c)) + 3, Len(c))

\* The text without the whitespace at its two ends.
Trimmed(t) ==
    LET inner == {i \in 1..Len(t) : t[i] \notin Whitespace}
    IN  IF inner = {} THEN <<>>
        ELSE SubSeq(t, Min(inner), CHOOSE i \in inner : \A j \in inner : j <= i)

\* What the claim lets the call return for c when the subject taken from
\* the second part is this one.
SubjectExpected(c, subject) ==
    IF c = <<>> THEN <<>>
    ELSE IF SeparatorsOf(c) = {} THEN c
    ELSE IF Len(CodeSegment(c)) >= 2 /\ SubSeq(CodeSegment(c), 1, 2) = <<"3", "3">>
         THEN <<"Psicologia > ">> \o subject
    ELSE subject

\* C15 as stated (classification fallback): the call splits on the first
\* " - " and, when two parts result, returns the second part, after
\* "Psicologia > " exactly when the code segment starts with "33"; without
\* " - " it returns the classification unmodified, and the empty string for
\* the empty string.
ClassificationFallback ==
    callDone =>
        callRet = SubjectExpected(callArg,
                                  IF SeparatorsOf(callArg) = {} THEN <<>>
                                  ELSE SecondPart(callArg))

\* C15 as amended: the same, the second part being returned without the
\* whitespace at its two ends.
ClassificationFallbackTrimmed ==
    callDone =>
        callRet = SubjectExpected(callArg,
                                  IF SeparatorsOf(callArg) = {} THEN <<>>
                                  ELSE Trimmed(SecondPart(callArg)))

\* C15 witness: "33 - x" gives the subject x after the label.
ClassificationWitness ==
    /\ callDone
    /\ callArg = <<"3", "3", " ", "-", " ", "x">>
    /\ callRet = <<"Psicologia > ", "x">>

(***************************************************************************)
(* Descriptor frame                                                        *)
(***************************************************************************)
\* (a) The positions of the first element of each descriptive kind the
\* record gives a value for.
FirstOfGivenKinds(children, rec) ==
    {i \in 1..Len(children) :
        /\ children[i].tag \in DescriptiveKinds
        /\ RecordValue(rec, children[i].tag) # <<>>
        /\ \A j \in 1..(i - 1) : children[j].tag # children[i].tag}

\* (b) The position of the identifier element chosen for the ISBN, 0 when
\* the record has no ISBN or no element is chosen.
ChosenPosition(children, rec) ==
    LET ids == {i \in 1..Len(children) : children[i].tag = "dc:identifier"}
        n == ChosenIdentifier(IdentifiersOf(children), rec.isbn)
    IN  IF rec.isbn = <<>> \/ n > Cardinality(ids) THEN 0
        ELSE CHOOSE i \in ids : Cardinality({j \in ids : j <= i}) = n

\* (c) The positions of the meta elements that refine the id of the chosen
\* identifier and declare the scheme property.
SchemeRefinements(children, rec) ==
    LET b == ChosenPosition(children, rec)
    IN  IF b = 0 THEN {}
        ELSE IF children[b].id = NoAttr THEN {}
        ELSE {i \in 1..Len(children) :
                /\ children[i].tag \in {"opf:meta", "meta"}
                /\ children[i].refines = children[b].id
                /\ children[i].property = "opf:scheme"}

\* C16 (descriptor frame): one call of update_opf_metadata leaves every
\* element of the container as it was, in its place among the others, but
\* for (a) the first element of each descriptive kind the record gives a
\* value for, of which only the text may change, (b) the identifier chosen
\* for the ISBN, which keeps its id, and (c) the meta elements that refine
\* that identifier and declare the scheme property; a kind whose value is
\* empty gets no new element, and a descriptor without container is left
\* as it was.
DescriptorFrame ==
    ocalls >= 1 =>
        IF ~opf0.hasMetadata THEN opf1 = opf0
        ELSE LET before == opf0.children
                 after == opf1.children
                 a == FirstOfGivenKinds(before, orec)
                 b == ChosenPosition(before, orec)
                 c == SchemeRefinements(before, orec)
                 place(i) == Cardinality({j \in 1..i : j \notin c})
             IN  /\ \A i \in (1..Len(before)) \ c :
                       /\ place(i) <= Len(after)
                       /\ IF i \in a
                          THEN after[place(i)]
                                 = [before[i] EXCEPT !.text = after[place(i)].text]
                          ELSE IF i = b
                          THEN after[place(i)]
                                 = [before[i] EXCEPT !.text = after[place(i)].text,
                                                     !.scheme = after[place(i)].scheme]
                          ELSE after[place(i)] = before[i]
                 /\ \A k \in DescriptiveKinds :
                       RecordValue(orec, k) = <<>> =>
                           Cardinality(FindAll(after, k)) = Cardinality(FindAll(before, k))
                 /\ orec.isbn = <<>> =>
                       Len(IdentifiersOf(after)) = Len(IdentifiersOf(before))

\* C16 witness: a call that rewrote the chosen one of two identifiers and
\* left the other with its text and its scheme, the record giving no title.
DescriptorFrameWitness ==
    /\ ocalls = 1
    /\ opf0.hasMetadata
    /\ orec.isbn # <<>>
    /\ orec.title = <<>>
    /\ Len(opf0.children) = 2
    /\ opf0.children[1].tag = "dc:identifier"
    /\ opf0.children[2].tag = "dc:identifier"
    /\ opf0.children[2].scheme = "ISBN"
    /\ opf1.children[1] # opf0.children[1]
    /\ opf1.children[2] = opf0.children[2]

(***************************************************************************)
(* Watermark frame                                                         *)
(***************************************************************************)
\* The content documents of the copy of platform p that differ from those of
\* the original extraction.
ChangedDocs(p) == {n \in DOMAIN baseline.docs : fs[p].docs[n] # baseline.docs[n]}

\* The copy of p holds the files of the original; before step 5 has marked
\* it all are as extracted; afterwards those that differ are eligible
\* chapters, at most NUM_FILES_TO_MARK of them, and carry the glyph of p and
\* of no other platform.
WatermarkFrameOfFiles ==
    \A p \in PlatformSet :
        fs[p] # NoTree =>
            /\ DOMAIN fs[p].docs = DOMAIN baseline.docs
            /\ p \notin marked => ChangedDocs(p) = {}
            /\ Cardinality(ChangedDocs(p)) <= NUM_FILES_TO_MARK
            /\ \A n \in ChangedDocs(p) :
                  /\ HasForm(n, "cap_")
                  /\ \E i \in 1..Len(fs[p].docs[n]) : fs[p].docs[n][i] = PLATFORM_MARKS[p]
                  /\ \A q \in PlatformSet \ {p} :
                        \A i \in 1..Len(fs[p].docs[n]) :
                            fs[p].docs[n][i] # PLATFORM_MARKS[q]

\* C17 (watermark frame): in a full run step 5 writes, for a platform, only
\* to eligible chapters of the copy of that platform, to at most
\* NUM_FILES_TO_MARK of them, and changes each only by adding one marker
\* block with the glyph of that platform; every other content document and
\* every file of the copy of another platform stays byte for byte what it
\* was.
WatermarkFrame ==
    /\ WatermarkFrameOfFiles
    /\ \A p \in PlatformSet :
          fs[p] # NoTree =>
              \A n \in ChangedDocs(p) :
                  \E j \in 1..Len(baseline.docs[n]), nl \in LineSeps :
                      fs[p].docs[n] = WithMarkerAt(baseline.docs[n], j, PLATFORM_MARKS[p], nl)

=============================================================================
